---- MODULE Spec2Model ----
(***************************************************************************)
(* A model of race_data.py: the RaceDataExtractor pipeline (rendered,      *)
(* browser-driven backend) and the GET /race-data/{username} handler.      *)
(*                                                                         *)
(* Text is modelled as a sequence of code points, so that Python's string  *)
(* ordering (min over lap times), the substring test "pit" in ...lower()   *)
(* and str.strip() are computed, not assumed.                              *)
(***************************************************************************)
EXTENDS Integers, Sequences, FiniteSets, TLC

VARIABLES
    site,          \* what the scraped website serves during this request
    pc,            \* position of the request inside get_race_data / process_races
    driver,        \* self.driver: "none" (None), "open", "quit"
    positions,     \* dict race_id -> position text (get_session_data)
    dates,         \* dict race_id -> <<date, time>> (get_session_data)
    profile_info,  \* self.profile_info
    race_ids,      \* the list built at line 195
    idx,           \* index of the for loop at line 200 (1-based)
    races_data,    \* self.races_data
    doc,           \* the session document the browser shows, NoDoc before the first
    result,        \* what process_races returned, NoResult if it has not returned
    error,         \* the exception in flight, NoError when none
    response,      \* what the endpoint answers, NoResponse until then
    log            \* every call made on the browser session, in order

vars == <<site, pc, driver, positions, dates, profile_info, race_ids, idx,
          races_data, doc, result, error, response, log>>

-----------------------------------------------------------------------------
(* Bounds of the model *)

MaxSessions == 3
MaxSummarySessions == 3
MaxRows == 2

-----------------------------------------------------------------------------
(* Text *)

\* "Not found"
NOT_FOUND == <<78, 111, 116, 32, 102, 111, 117, 110, 100>>

\* "pit"
PIT == <<112, 105, 116>>

\* "time_laps first", "time_laps first pit", "time_laps first PIT"
CLS_PLAIN == <<116, 105, 109, 101, 95, 108, 97, 112, 115, 32, 102, 105, 114, 115, 116>>
CLS_PIT == CLS_PLAIN \o <<32, 112, 105, 116>>
CLS_PIT_UPPER == CLS_PLAIN \o <<32, 80, 73, 84>>

\* "1:02.3", "1:01.9", "59.8": as strings "1:01.9" < "1:02.3" < "59.8",
\* as durations 59.8 s is the shortest
T_1_02_3 == <<49, 58, 48, 50, 46, 51>>
T_1_01_9 == <<49, 58, 48, 49, 46, 57>>
T_59_8 == <<53, 57, 46, 56>>
Times == {T_1_02_3, T_1_01_9, T_59_8}

EMPTY == <<>>

\* str.lower() on ASCII text
Lower(s) == [i \in 1..Len(s) |-> IF s[i] \in 65..90 THEN s[i] + 32 ELSE s[i]]

\* sub in s
Contains(s, sub) ==
    \E i \in 0..(Len(s) - Len(sub)) : SubSeq(s, i + 1, i + Len(sub)) = sub

\* Python's < on str: code point by code point, a proper prefix is smaller
StrLess(a, b) ==
    \E k \in 1..(Len(a) + 1) :
        /\ \A j \in 1..(k - 1) : j <= Len(b) /\ a[j] = b[j]
        /\ \/ k = Len(a) + 1 /\ Len(b) >= k
           \/ k <= Len(a) /\ k <= Len(b) /\ a[k] < b[k]

IsSpace(c) == c \in {32, 9, 10, 13}

\* str.strip()
RECURSIVE LStrip(_)
LStrip(s) == IF s # <<>> /\ IsSpace(Head(s)) THEN LStrip(Tail(s)) ELSE s
RECURSIVE RStrip(_)
RStrip(s) ==
    IF s # <<>> /\ IsSpace(s[Len(s)]) THEN RStrip(SubSeq(s, 1, Len(s) - 1)) ELSE s
Strip(s) == RStrip(LStrip(s))

\* bool(s) for a str or None
NONE == "None"
Truthy(u) == u # NONE /\ u # ""

\* dict
EmptyDict == [k \in {} |-> EMPTY]
DictPut(d, key, v) == [k \in DOMAIN d \cup {key} |-> IF k = key THEN v ELSE d[k]]
DictGet(d, key, default) == IF key \in DOMAIN d THEN d[key] ELSE default

-----------------------------------------------------------------------------
(* Exceptions and responses *)

NoError == [type |-> "", msg |-> ""]
Exc(t, m) == [type |-> t, msg |-> m]
NoSuchElement(what) == Exc("NoSuchElementException", what)

NoResult == [returned |-> FALSE, profile_info |-> EmptyDict, races_data |-> <<>>]
NoResponse == [status |-> 0, detail |-> "", body |-> NoResult]

\* log entries: one per call made on the browser session
Op(name, arg) == [op |-> name, arg |-> arg]
OpsNamedIn(l, name) == SelectSeq(l, LAMBDA e : e.op = name)

-----------------------------------------------------------------------------
(* The website: documents the extractor may be served *)

\* texts of the i-th session container of the profile page
PositionText(i) == <<48 + i>>
DateText(i) == <<68, 48 + i, 32>>
ClockText(i) == <<32, 84, 48 + i>>

\* a session container: data-session-uuid, the "position inline" element,
\* the "date" element and its spans (nspans < 0: no "date" element)
MkContainer(i, uuid, hasPos, nspans) ==
    [uuid |-> uuid,
     hasPosition |-> hasPos,
     position |-> IF hasPos THEN PositionText(i) ELSE EMPTY,
     hasDate |-> nspans >= 0,
     dateSpans |-> IF nspans >= 0
                   THEN SubSeq(<<DateText(i), ClockText(i)>>, 1, nspans)
                   ELSE <<>>]

\* the ids the site assigns to sessions
SessionIds == {"s1", "s2"}
IdOf(i) == "s" \o ToString(i)

\* the containers the i-th place of a profile page may hold
ContainersAt(i, uuids, posFlags, spanCounts) ==
    {MkContainer(i, u, p, n) : u \in uuids, p \in posFlags, n \in spanCounts}

\* profile pages of at most max containers; the i-th container has an id of
\* uuids, or the id IdOf(i) when distinct is set
RECURSIVE SessionLists(_, _, _, _, _)
SessionLists(max, distinct, uuids, posFlags, spanCounts) ==
    IF max = 0 THEN {<<>>}
    ELSE LET shorter == SessionLists(max - 1, distinct, uuids, posFlags, spanCounts)
             here == ContainersAt(max, IF distinct THEN {IdOf(max)} ELSE uuids,
                                  posFlags, spanCounts)
         IN  shorter \cup {Append(s, c) : s \in {t \in shorter : Len(t) = max - 1},
                                          c \in here}

\* the profile part of the profile page
StatClasses == <<"total_distance", "total_time", "favorite_track">>
StatLabels == <<"Total Distance", "Total Drive Hours", "Preferred Track">>
NameText == <<32, 78, 32>>
LocationText == <<76>>
StatText(k) == <<86, 48 + k>>
AllStats == {StatClasses[k] : k \in 1..3}
ProfileDocs ==
    [hasUsername : BOOLEAN, hasLocation : BOOLEAN,
     stats : {AllStats, AllStats \ {"total_time"}}]
ProfileOk == [hasUsername |-> TRUE, hasLocation |-> TRUE, stats |-> AllStats]

\* a row of the lap table: the "lap-name" element, the ".time_laps.first"
\* cell with its class attribute, and the span inside the cell
MkRow(hasLabel, label, hasCell, cls, hasSpan, time) ==
    [hasLabel |-> hasLabel, label |-> label, hasCell |-> hasCell, cls |-> cls,
     hasSpan |-> hasSpan, time |-> time]
LabelText(i) == <<48 + i>>
LapRow(i, t) == MkRow(TRUE, LabelText(i), TRUE, CLS_PLAIN, TRUE, t)
PitRow(i, cls, t) == MkRow(TRUE, LabelText(i), TRUE, cls, TRUE, t)

\* the session detail documents built around a lap table
TrackText == <<84, 114>>
KartText == <<75, 49, 32>>
MkDoc(marker, trackKart, divs, rows) ==
    [marker |-> marker, trackKart |-> trackKart, divs |-> divs, rows |-> rows]
NoDoc == MkDoc(FALSE, FALSE, <<>>, <<>>)
DetailDocs(rows) ==
    { MkDoc(TRUE, TRUE, <<TrackText, KartText>>, rows),
      MkDoc(FALSE, TRUE, <<TrackText, KartText>>, rows),
      MkDoc(TRUE, FALSE, <<>>, rows),
      MkDoc(TRUE, TRUE, <<>>, rows) }

-----------------------------------------------------------------------------
(* get_session_data: positions and dates of the sessions of the profile page *)

\* one pass of the loop body, lines 75-86: a missing element or span ends the
\* pass (continue) and keeps what the pass had stored before
SessionStep(c, acc) ==
    LET race_id == c.uuid
    IN  IF ~c.hasPosition THEN acc
        ELSE LET withPos == [acc EXCEPT !.positions =
                                DictPut(@, race_id, Strip(c.position))]
             IN  IF ~c.hasDate \/ Len(c.dateSpans) < 2 THEN withPos
                 ELSE [withPos EXCEPT !.dates =
                          DictPut(@, race_id, <<Strip(c.dateSpans[1]),
                                                Strip(c.dateSpans[2])>>)]

RECURSIVE SessionLoop(_, _)
SessionLoop(sessions, acc) ==
    IF sessions = <<>> THEN acc
    ELSE SessionLoop(Tail(sessions), SessionStep(Head(sessions), acc))

get_session_data(sessions) ==
    SessionLoop(sessions, [positions |-> EmptyDict, dates |-> EmptyDict])

-----------------------------------------------------------------------------
(* get_profile_info *)

\* the loop over stats, lines 113-116, from the k-th label on
RECURSIVE StatsLoop(_, _, _)
StatsLoop(profile, k, info) ==
    IF k > Len(StatClasses) THEN [info |-> info, error |-> NoError]
    ELSE IF StatClasses[k] \notin profile.stats
         THEN [info |-> info, error |-> NoSuchElement(StatClasses[k])]
         ELSE StatsLoop(profile, k + 1,
                        [info EXCEPT !["Statistics"] =
                            DictPut(@, StatLabels[k], Strip(StatText(k)))])

get_profile_info(profile, info) ==
    IF ~profile.hasUsername THEN [info |-> info, error |-> NoSuchElement("username")]
    ELSE IF ~profile.hasLocation
         THEN [info |-> info, error |-> NoSuchElement("profile-more-info")]
         ELSE StatsLoop(profile, 1,
                        DictPut(DictPut(DictPut(info, "Driver Name", Strip(NameText)),
                                        "Location", Strip(LocationText)),
                                "Statistics", EmptyDict))

-----------------------------------------------------------------------------
(* _extract_lap_times and the best lap *)

\* a variant of IsPitClass that leaves out lower()
IsPitClassCaseSensitive(cls) == Contains(cls, PIT)

\* line 176: "pit" in the lower-cased class attribute
IsPitClass(cls) == Contains(Lower(cls), PIT)

\* one pass of the loop body, lines 172-182
LapStep(row, lap_times) ==
    IF ~row.hasLabel \/ ~row.hasCell THEN lap_times
    ELSE IF IsPitClass(row.cls) THEN lap_times
    ELSE IF ~row.hasSpan THEN lap_times
    ELSE IF row.label # EMPTY /\ row.time # EMPTY
         THEN Append(lap_times, <<row.label, row.time>>)
         ELSE lap_times

\* a variant of LapLoop with the try around the whole loop: the first row with
\* a missing element ends the extraction
RECURSIVE LapLoopAbort(_, _)
LapLoopAbort(rows, lap_times) ==
    IF rows = <<>> THEN lap_times
    ELSE LET row == Head(rows)
         IN  IF ~row.hasLabel \/ ~row.hasCell
                \/ (~IsPitClass(row.cls) /\ ~row.hasSpan)
             THEN lap_times
             ELSE LapLoopAbort(Tail(rows), LapStep(row, lap_times))

RECURSIVE LapLoop(_, _)
LapLoop(rows, lap_times) ==
    IF rows = <<>> THEN lap_times
    ELSE LapLoop(Tail(rows), LapStep(Head(rows), lap_times))

extract_lap_times(rows) == LapLoop(rows, <<>>)

\* min(lap_times, key=lambda x: x[1]): the first entry no later one is below
RECURSIVE MinByTime(_, _)
MinByTime(lap_times, best) ==
    IF lap_times = <<>> THEN best
    ELSE MinByTime(Tail(lap_times),
                   IF StrLess(Head(lap_times)[2], best[2]) THEN Head(lap_times)
                   ELSE best)

\* a variant of best_time_val with min(lap_times), no key: the entries compare as
\* tuples, label first
RECURSIVE MinByTuple(_, _)
MinByTuple(lap_times, best) ==
    IF lap_times = <<>> THEN best
    ELSE LET h == Head(lap_times)
         IN  MinByTuple(Tail(lap_times),
                        IF StrLess(h[1], best[1])
                           \/ (h[1] = best[1] /\ StrLess(h[2], best[2]))
                        THEN h ELSE best)
best_time_val_no_key(lap_times) ==
    IF lap_times # <<>> THEN MinByTuple(Tail(lap_times), Head(lap_times))[2]
    ELSE NOT_FOUND

\* lines 141-146
best_time_val(lap_times) ==
    IF lap_times # <<>> THEN MinByTime(Tail(lap_times), Head(lap_times))[2]
    ELSE NOT_FOUND

-----------------------------------------------------------------------------
(* get_lap_data, after the navigation: lines 127-163 *)

race_info(race_id, pos, dts, d) ==
    LET lap_times == extract_lap_times(d.rows)
        dt == DictGet(dts, race_id, <<NOT_FOUND, NOT_FOUND>>)
    IN  [race_id |-> race_id,
         position |-> DictGet(pos, race_id, NOT_FOUND),
         date |-> dt[1],
         time |-> dt[2],
         track |-> Strip(TrackText),
         kart |-> IF d.divs = <<>> THEN EMPTY ELSE Strip(d.divs[Len(d.divs)]),
         lap_times |-> lap_times,
         best_time |-> best_time_val(lap_times)]

\* what the try block of get_lap_data raises on document d, NoError if nothing
lap_data_error(d) ==
    IF ~d.marker THEN Exc("TimeoutException", "Message: ")
    ELSE IF ~d.trackKart THEN NoSuchElement("track-kart")
    ELSE IF d.divs = <<>> THEN Exc("IndexError", "list index out of range")
    ELSE NoError

\* a variant of RaceIds that lists the sessions get_session_data has a position of
RECURSIVE RaceIdsWithPosition(_)
RaceIdsWithPosition(sessions) ==
    IF sessions = <<>> THEN <<>>
    ELSE IF Truthy(Head(sessions).uuid) /\ Head(sessions).hasPosition
         THEN <<Head(sessions).uuid>> \o RaceIdsWithPosition(Tail(sessions))
         ELSE RaceIdsWithPosition(Tail(sessions))

\* line 195
RECURSIVE RaceIds(_)
RaceIds(sessions) ==
    IF sessions = <<>> THEN <<>>
    ELSE IF Truthy(Head(sessions).uuid)
         THEN <<Head(sessions).uuid>> \o RaceIds(Tail(sessions))
         ELSE RaceIds(Tail(sessions))

-----------------------------------------------------------------------------
(* The sites of the three specifications *)

MkSite(sessions, profile, laps) ==
    [sessions |-> sessions, profile |-> profile, laps |-> laps]

\* lap tables of the pipeline runs: no rows; two laps; a pit lap and a lap
PipelineTables ==
    { <<>>,
      <<LapRow(1, T_1_02_3), LapRow(2, T_1_01_9)>>,
      <<PitRow(1, CLS_PIT, T_1_01_9), LapRow(2, T_59_8)>> }

\* Spec: any ids (absent, repeated), position present or not, any profile
Sites ==
    { MkSite(ss, p, l) :
        ss \in SessionLists(MaxSessions, FALSE, {NONE} \cup SessionIds, BOOLEAN, {2}),
        p \in ProfileDocs,
        l \in [SessionIds -> PipelineTables] }

\* SpecSummary: every shape of a container's summary, distinct ids
SummarySites ==
    { MkSite(ss, ProfileOk,
             [u \in {IdOf(i) : i \in 1..MaxSummarySessions} |->
                 <<LapRow(1, T_1_02_3), LapRow(2, T_1_01_9)>>]) :
        ss \in SessionLists(MaxSummarySessions, TRUE, {}, BOOLEAN, (-1)..2) }

\* the rows the i-th place of a lap table may hold
RowsAt(i) ==
    LET labels == {<<FALSE, EMPTY>>, <<TRUE, EMPTY>>, <<TRUE, LabelText(i)>>}
        cells == {<<FALSE, EMPTY, FALSE, EMPTY>>, <<TRUE, CLS_PLAIN, FALSE, EMPTY>>}
                 \cup {<<TRUE, CLS_PLAIN, TRUE, t>> : t \in Times \cup {EMPTY}}
                 \cup {<<TRUE, c, TRUE, T_1_01_9>> : c \in {CLS_PIT, CLS_PIT_UPPER}}
    IN  {MkRow(l[1], l[2], c[1], c[2], c[3], c[4]) : l \in labels, c \in cells}

RECURSIVE LapTables(_)
LapTables(max) ==
    IF max = 0 THEN {<<>>}
    ELSE LET shorter == LapTables(max - 1)
         IN  shorter \cup {Append(t, r) : t \in {u \in shorter : Len(u) = max - 1},
                                          r \in RowsAt(max)}

\* SpecLaps: one session, every lap table of at most MaxRows rows
LapSites ==
    { MkSite(<<MkContainer(1, "s1", TRUE, 2)>>, ProfileOk, [u \in {"s1"} |-> t]) :
        t \in LapTables(MaxRows) }

-----------------------------------------------------------------------------
(* get_race_data / process_races, one action per step *)

\* the state after RaceDataExtractor.__init__, lines 29-40
InitOn(sites) ==
    /\ site \in sites
    /\ pc = "setup_driver"
    /\ driver = "none"
    /\ positions = EmptyDict
    /\ dates = EmptyDict
    /\ profile_info = EmptyDict
    /\ race_ids = <<>>
    /\ idx = 1
    /\ races_data = <<>>
    /\ doc = NoDoc
    /\ result = NoResult
    /\ error = NoError
    /\ response = NoResponse
    /\ log = <<>>

Init == InitOn(Sites)
InitSummary == InitOn(SummarySites)
InitLaps == InitOn(LapSites)

\* raise e inside the try of process_races: control goes to the finally clause
Raise(e) == error' = e /\ pc' = "finally"

\* setup_driver with _handle_cookies, lines 42-64
SetupOutcomes == {"chrome_error", "get_error", "popup_closed", "no_popup", "click_error"}
SetupDriver ==
    /\ pc = "setup_driver"
    /\ \E o \in SetupOutcomes :
         IF o = "chrome_error"
         THEN /\ Raise(Exc("WebDriverException", "chrome not reachable"))
              /\ UNCHANGED <<driver, log>>
         ELSE /\ driver' = "open"
              /\ IF o = "get_error"
                 THEN /\ log' = Append(log, Op("get_profile", ""))
                      /\ Raise(Exc("WebDriverException", "net::ERR_NAME_NOT_RESOLVED"))
                 ELSE /\ log' = log \o <<Op("get_profile", ""), Op("cookies", "")>>
                      /\ IF o = "click_error"
                         THEN Raise(Exc("ElementClickInterceptedException",
                                        "element click intercepted"))
                         ELSE pc' = "get_session_data" /\ UNCHANGED error
    /\ UNCHANGED <<site, positions, dates, profile_info, race_ids, idx, races_data,
                   doc, result, response>>

\* get_session_data, lines 66-91; find_elements may fail in the browser
GetSessionData ==
    /\ pc = "get_session_data"
    /\ log' = Append(log, Op("get_session_data", ""))
    /\ \E ok \in BOOLEAN :
         IF ok
         THEN LET r == get_session_data(site.sessions)
              IN  /\ positions' = r.positions
                  /\ dates' = r.dates
                  /\ pc' = "get_profile_info"
                  /\ UNCHANGED error
         ELSE /\ Raise(Exc("WebDriverException", "invalid session id"))
              /\ UNCHANGED <<positions, dates>>
    /\ UNCHANGED <<site, driver, profile_info, race_ids, idx, races_data, doc, result,
                   response>>

\* get_profile_info, lines 93-120
GetProfileInfo ==
    /\ pc = "get_profile_info"
    /\ log' = Append(log, Op("get_profile_info", ""))
    /\ LET r == get_profile_info(site.profile, profile_info)
       IN  /\ profile_info' = r.info
           /\ IF r.error = NoError
              THEN pc' = "list_sessions" /\ UNCHANGED error
              ELSE Raise(r.error)
    /\ UNCHANGED <<site, driver, positions, dates, race_ids, idx, races_data, doc,
                   result, response>>

\* lines 194-198
ListSessions ==
    /\ pc = "list_sessions"
    /\ log' = Append(log, Op("list_sessions", ""))
    /\ race_ids' = RaceIds(site.sessions)
    /\ profile_info' = DictPut(profile_info, "Total Races", Len(race_ids'))
    /\ idx' = 1
    /\ pc' = "loop"
    /\ UNCHANGED <<site, driver, positions, dates, races_data, doc, result, error,
                   response>>

\* a variant of NavigateSession that tries again after a failed navigation
NavigateSessionRetry ==
    /\ pc = "loop"
    /\ idx <= Len(race_ids)
    /\ log' = Append(log, Op("get_session", race_ids[idx]))
    /\ \E ok \in BOOLEAN :
         IF ok
         THEN /\ doc' \in DetailDocs(site.laps[race_ids[idx]])
              /\ pc' = "session_page"
         ELSE /\ Len(OpsNamedIn(log, "get_session")) < 2 * Len(race_ids)
              /\ UNCHANGED <<doc, pc>>
    /\ UNCHANGED <<site, driver, positions, dates, profile_info, race_ids, idx,
                   races_data, result, response, error>>

\* get_lap_data, line 125: the navigation to the session's page
NavigateSession ==
    /\ pc = "loop"
    /\ idx <= Len(race_ids)
    /\ log' = Append(log, Op("get_session", race_ids[idx]))
    /\ \E ok \in BOOLEAN :
         IF ok
         THEN /\ doc' \in DetailDocs(site.laps[race_ids[idx]])
              /\ pc' = "session_page"
              /\ UNCHANGED error
         ELSE /\ Raise(Exc("WebDriverException", "net::ERR_CONNECTION_RESET"))
              /\ UNCHANGED doc
    /\ UNCHANGED <<site, driver, positions, dates, profile_info, race_ids, idx,
                   races_data, result, response>>

\* a variant of ExtractSession that isolates a session's failure: the session
\* gets a record without laps and the loop goes on
ExtractSessionIsolated ==
    /\ pc = "session_page"
    /\ log' = Append(log, Op("get_lap_data", race_ids[idx]))
    /\ races_data' = Append(races_data,
                            IF lap_data_error(doc) = NoError
                            THEN race_info(race_ids[idx], positions, dates, doc)
                            ELSE race_info(race_ids[idx], positions, dates,
                                           MkDoc(TRUE, TRUE, <<EMPTY>>, <<>>)))
    /\ idx' = idx + 1
    /\ pc' = "loop"
    /\ UNCHANGED <<site, driver, positions, dates, profile_info, race_ids, doc, result,
                   response, error>>

\* get_lap_data, lines 127-163, and the end of the loop body
ExtractSession ==
    /\ pc = "session_page"
    /\ log' = Append(log, Op("get_lap_data", race_ids[idx]))
    /\ LET e == lap_data_error(doc)
       IN  IF e = NoError
           THEN /\ races_data' = Append(races_data,
                                        race_info(race_ids[idx], positions, dates, doc))
                /\ idx' = idx + 1
                /\ pc' = "loop"
                /\ UNCHANGED error
           ELSE /\ Raise(e)
                /\ UNCHANGED <<races_data, idx>>
    /\ UNCHANGED <<site, driver, positions, dates, profile_info, race_ids, doc, result,
                   response>>

\* lines 205-208
Return ==
    /\ pc = "loop"
    /\ idx > Len(race_ids)
    /\ result' = [returned |-> TRUE, profile_info |-> profile_info,
                  races_data |-> races_data]
    /\ pc' = "finally"
    /\ UNCHANGED <<site, driver, positions, dates, profile_info, race_ids, idx,
                   races_data, doc, error, response, log>>

\* a variant of Finally with the quit at the end of the try block
FinallyOnSuccessOnly ==
    /\ pc = "finally"
    /\ IF driver # "none" /\ error = NoError
       THEN driver' = "quit" /\ log' = Append(log, Op("quit", ""))
       ELSE UNCHANGED <<driver, log>>
    /\ pc' = "respond"
    /\ UNCHANGED <<site, positions, dates, profile_info, race_ids, idx, races_data,
                   doc, result, error, response>>

\* lines 213-216
Finally ==
    /\ pc = "finally"
    /\ IF driver # "none"
       THEN driver' = "quit" /\ log' = Append(log, Op("quit", ""))
       ELSE UNCHANGED <<driver, log>>
    /\ pc' = "respond"
    /\ UNCHANGED <<site, positions, dates, profile_info, race_ids, idx, races_data,
                   doc, result, error, response>>

\* a variant of Respond that answers with what was gathered before the failure
RespondPartial ==
    /\ pc = "respond"
    /\ response' = [status |-> 200, detail |-> "",
                    body |-> [returned |-> TRUE, profile_info |-> profile_info,
                              races_data |-> races_data]]
    /\ pc' = "done"
    /\ UNCHANGED <<site, driver, positions, dates, profile_info, race_ids, idx,
                   races_data, doc, result, error, log>>

\* get_race_data, lines 223-231
Respond ==
    /\ pc = "respond"
    /\ response' = IF error = NoError
                   THEN [status |-> 200, detail |-> "", body |-> result]
                   ELSE [status |-> 500, detail |-> error.msg, body |-> NoResult]
    /\ pc' = "done"
    /\ UNCHANGED <<site, driver, positions, dates, profile_info, race_ids, idx,
                   races_data, doc, result, error, log>>

Next ==
    \/ SetupDriver
    \/ GetSessionData
    \/ GetProfileInfo
    \/ ListSessions
    \/ NavigateSession
    \/ ExtractSession
    \/ Return
    \/ Finally
    \/ Respond

Spec == Init /\ [][Next]_vars
SpecSummary == InitSummary /\ [][Next]_vars
SpecLaps == InitLaps /\ [][Next]_vars

-----------------------------------------------------------------------------
(* What the claims speak of *)

Range(f) == {f[i] : i \in DOMAIN f}
OpsNamed(name) == OpsNamedIn(log, name)
Exited == pc \in {"respond", "done"}
Succeeded == pc = "done" /\ response.status = 200

\* the ids of the session containers that carry one, in page order
DiscoveredIds ==
    LET withId == SelectSeq(site.sessions, LAMBDA c : c.uuid # NONE /\ c.uuid # "")
    IN  [i \in 1..Len(withId) |-> withId[i].uuid]

\* a row's class attribute carries the pit-stop flag
PitFlagged(row) == row.hasCell /\ row.cls \in {CLS_PIT, CLS_PIT_UPPER}

\* a row with a label, an unflagged time cell and a time text
Timed(row) ==
    /\ row.hasLabel /\ row.label # EMPTY
    /\ row.hasCell /\ row.cls = CLS_PLAIN
    /\ row.hasSpan /\ row.time # EMPTY

\* a session failed: an exception is in flight after a session page was asked for
SessionFailed == error # NoError /\ OpsNamed("get_session") # <<>>

-----------------------------------------------------------------------------
(* C1 *)

\* C1 (as claimed): a profile document without the "username" element makes
\* get_profile_info fail with ProfileNotFoundError and the endpoint answer 404.
\* The code raises NoSuchElementException and answers 500.
C1_MissingProfileIs404 ==
    (pc = "done" /\ ~site.profile.hasUsername /\ OpsNamed("get_profile_info") # <<>>)
        => (error.type = "ProfileNotFoundError" /\ response.status = 404)

-----------------------------------------------------------------------------
(* C2 *)

\* C2 (as claimed): a session whose container lacks the position, the date
\* element or one of its spans gets a record with "Not found" for exactly the
\* missing fields, every other field keeping its page value. (SpecSummary gives
\* the i-th container the id IdOf(i), so record i is container i's.)
C2_NotFoundForExactlyTheMissing ==
    Succeeded =>
        \A i \in 1..Len(site.sessions) :
            LET c == site.sessions[i]
                r == response.body.races_data[i]
            IN  /\ r.position = IF c.hasPosition THEN Strip(c.position) ELSE NOT_FOUND
                /\ r.date = IF Len(c.dateSpans) >= 1 THEN Strip(c.dateSpans[1])
                            ELSE NOT_FOUND
                /\ r.time = IF Len(c.dateSpans) >= 2 THEN Strip(c.dateSpans[2])
                            ELSE NOT_FOUND

-----------------------------------------------------------------------------
(* C3 *)

\* C3: no row flagged as a pit-stop lap is an entry of the record's lap_times
\* (labels are the rows' lap numbers, so an entry names its row), and best_time
\* is the time of such a row only if a timed, unflagged row has the same time.
C3_PitRowsExcluded ==
    \A r \in Range(races_data) :
        LET rows == site.laps[r.race_id]
        IN  \A k \in 1..Len(rows) :
                PitFlagged(rows[k]) =>
                    /\ <<rows[k].label, rows[k].time>> \notin Range(r.lap_times)
                    /\ r.best_time = rows[k].time =>
                           \E j \in 1..Len(rows) :
                               Timed(rows[j]) /\ rows[j].time = r.best_time

\* C3's case: a record whose table has a flagged row with a time below the best
C3_Witness ==
    \E r \in Range(races_data) :
        LET rows == site.laps[r.race_id]
        IN  /\ r.lap_times # <<>>
            /\ \E k \in 1..Len(rows) :
                   /\ PitFlagged(rows[k]) /\ rows[k].hasLabel /\ rows[k].label # EMPTY
                   /\ rows[k].cls = CLS_PIT_UPPER
                   /\ StrLess(rows[k].time, r.best_time)

-----------------------------------------------------------------------------
(* C4 *)

\* C4: best_time is an entry's time that no entry's time is below (as strings)
\* when lap_times is non-empty, and is "Not found" exactly when it is empty.
C4_BestIsSmallestString ==
    \A r \in Range(races_data) :
        /\ r.lap_times # <<>> =>
              /\ \E k \in 1..Len(r.lap_times) : r.lap_times[k][2] = r.best_time
              /\ \A k \in 1..Len(r.lap_times) : ~StrLess(r.lap_times[k][2], r.best_time)
        /\ (r.best_time = NOT_FOUND) <=> (r.lap_times = <<>>)

\* C4's case: the later lap is the best, and it is not the shortest duration
C4_Witness ==
    \E r \in Range(races_data) :
        /\ Len(r.lap_times) >= 2
        /\ r.lap_times[1][2] = T_59_8
        /\ r.best_time = T_1_01_9

-----------------------------------------------------------------------------
(* C5 *)

\* C5: on success the race_id values of races_data are the ids of the session
\* containers in page order.
C5_OrderIsDiscoveryOrder ==
    Succeeded =>
        [i \in 1..Len(response.body.races_data) |-> response.body.races_data[i].race_id]
            = DiscoveredIds

\* C5's case: a container without position, sessions with and without laps
C5_Witness ==
    /\ Succeeded
    /\ Len(response.body.races_data) >= 2
    /\ \E i \in 1..Len(site.sessions) :
           Truthy(site.sessions[i].uuid) /\ ~site.sessions[i].hasPosition
    /\ \E a, b \in Range(response.body.races_data) :
           a.lap_times = <<>> /\ b.lap_times # <<>>

-----------------------------------------------------------------------------
(* C6 *)

\* C6: a browser session that was created is released exactly once before
\* process_races exits, on every exit path, and nothing is done on it later.
C6_ReleasedExactlyOnce ==
    /\ Len(OpsNamed("quit")) <= 1
    /\ OpsNamed("quit") # <<>> => (log[Len(log)].op = "quit" /\ Exited /\ driver = "quit")
    /\ (Exited /\ driver # "none") => Len(OpsNamed("quit")) = 1
    /\ driver = "none" => log = <<>>

\* C6's case: the second session failed and the session was released
C6_Witness ==
    /\ pc = "done"
    /\ error # NoError
    /\ Len(races_data) = 1
    /\ Len(OpsNamed("quit")) = 1

-----------------------------------------------------------------------------
(* C7 *)

\* the second of two sessions timed out waiting for its lap table
SecondTimedOut ==
    /\ pc = "done"
    /\ Len(race_ids) = 2 /\ idx = 2
    /\ error.type = "TimeoutException"

\* C7 (as claimed): with S1 (laps) and S2 (lap table not reachable) the request
\* succeeds with two records, S2's having no laps and best_time "Not found".
C7_UnreachableTableGivesEmptyRecord ==
    SecondTimedOut =>
        /\ response.status = 200
        /\ Len(response.body.races_data) = 2
        /\ response.body.races_data[2].lap_times = <<>>
        /\ response.body.races_data[2].best_time = NOT_FOUND

\* C7 (amended): a session whose lap table is not reached (navigation failure or
\* timeout) fails the request: 500, nothing returned, the records of the earlier
\* sessions staying as they were in self.races_data. A session whose page is
\* reached and has no usable lap row yields lap_times == [] and best_time ==
\* "Not found"; each record is that of its own session's page.
C7_UnreachableTableFailsRequest ==
    /\ (SessionFailed /\ error.type \in {"TimeoutException", "WebDriverException"}) =>
          /\ result = NoResult
          /\ Len(races_data) = idx - 1
          /\ pc = "done" => (response.status = 500 /\ response.body = NoResult)
    /\ \A i \in 1..Len(races_data) :
          LET rows == site.laps[races_data[i].race_id]
          IN  /\ races_data[i].race_id = race_ids[i]
              /\ (\A k \in 1..Len(rows) : ~Timed(rows[k])) =>
                     (races_data[i].lap_times = <<>>
                         /\ races_data[i].best_time = NOT_FOUND)
              /\ rows = <<LapRow(1, T_1_02_3), LapRow(2, T_1_01_9)>> =>
                     races_data[i].best_time = T_1_01_9

\* C7's case: S1 has the laps 1:02.3 and 1:01.9, S2 timed out
C7_Witness ==
    /\ SecondTimedOut
    /\ Len(races_data) = 1
    /\ races_data[1].lap_times = <<<<LabelText(1), T_1_02_3>>, <<LabelText(2), T_1_01_9>>>>
    /\ races_data[1].best_time = T_1_01_9
    /\ response.status = 500

-----------------------------------------------------------------------------
(* C8 *)

\* C8: a failure while processing a session ends the request: no later session
\* is fetched, process_races returns nothing, and the answer is 500 with the
\* exception's message as detail.
C8_SessionFailureFailsRequest ==
    SessionFailed =>
        /\ pc \in {"finally", "respond", "done"}
        /\ result = NoResult
        /\ Len(OpsNamed("get_session")) = Len(races_data) + 1
        /\ pc = "done" =>
              /\ response.status = 500
              /\ response.detail = error.msg
              /\ response.body = NoResult

\* C8's case: the first of two sessions has no track-kart block
C8_Witness ==
    /\ pc = "done"
    /\ SessionFailed
    /\ error = NoSuchElement("track-kart")
    /\ Len(race_ids) = 2 /\ races_data = <<>>

-----------------------------------------------------------------------------
(* C9 *)

\* C9: lap_times is the sequence of (label, time) of the table's timed,
\* unflagged rows in row order; the other rows are skipped.
C9_LapTimesAreTheTimedRows ==
    \A r \in Range(races_data) :
        LET kept == SelectSeq(site.laps[r.race_id], Timed)
        IN  r.lap_times = [i \in 1..Len(kept) |-> <<kept[i].label, kept[i].time>>]

\* C9's case: a row without time cell before a timed row, which is kept
C9_Witness ==
    \E r \in Range(races_data) :
        LET rows == site.laps[r.race_id]
        IN  /\ Len(rows) >= 2
            /\ ~rows[1].hasCell /\ rows[1].hasLabel
            /\ Timed(rows[2])
            /\ r.lap_times = <<<<rows[2].label, rows[2].time>>>>

-----------------------------------------------------------------------------
(* C10 *)

\* the page fetches, in order
Fetches == SelectSeq(log, LAMBDA e : e.op \in {"get_profile", "get_session"})
FirstIndex(name) == CHOOSE i \in 1..Len(log) :
                        log[i].op = name /\ \A j \in 1..(i - 1) : log[j].op # name

\* C10: the profile page is fetched once and first; the summaries, the profile
\* info and the id list are read before the first session page is asked for;
\* the k-th session fetch is for the k-th discovered id and comes only after the
\* record of session k-1 was appended; a successful run makes 1 + n fetches.
C10_SequentialFetchesNoRetry ==
    /\ Len(OpsNamed("get_profile")) <= 1
    /\ log # <<>> => log[1].op = "get_profile"
    /\ OpsNamed("get_session") # <<>> =>
          /\ \A name \in {"get_session_data", "get_profile_info", "list_sessions"} :
                /\ Len(OpsNamed(name)) = 1
                /\ FirstIndex(name) < FirstIndex("get_session")
    /\ Len(OpsNamed("get_session")) <= Len(DiscoveredIds)
    /\ \A k \in 1..Len(OpsNamed("get_session")) :
          OpsNamed("get_session")[k].arg = DiscoveredIds[k]
    /\ Len(OpsNamed("get_session")) \in {Len(races_data), Len(races_data) + 1}
    /\ Succeeded => Len(Fetches) = 1 + Len(DiscoveredIds)

\* C10's case: a successful run over two sessions made three fetches
C10_Witness ==
    /\ Succeeded
    /\ Len(DiscoveredIds) = 2
    /\ Len(Fetches) = 3

====
